---- MODULE Spec2Model ----
(***************************************************************************)
(* Model of the idea scoring and ranking engine of startup-idea-analysis:  *)
(*   src/src/idea_generator/models/ai_generated_models.py  (financial      *)
(*       sub-formulas and rank_business_idea)                              *)
(*   src/src/idea_generator/utils/ai_generated_swot.py     (quantitative   *)
(*       SWOT aggregation)                                                 *)
(*                                                                         *)
(* Python floats are modelled as exact rationals [n, d] in lowest terms,   *)
(* extended with the IEEE special values the code can produce from         *)
(* math.inf: +inf = [1,0], -inf = [-1,0], nan = [0,0].  Binary rounding    *)
(* and overflow of finite values are not modelled.  A Python exception is  *)
(* an outcome record with exc = TRUE.                                      *)
(***************************************************************************)
EXTENDS Integers, Sequences, FiniteSets, TLC

VARIABLES pc, fn, args, self, ret

vars == <<pc, fn, args, self, ret>>

(***************************************************************************)
(* Bounds of the input domains.                                            *)
(***************************************************************************)
MaxCompetitors == 2

MaxFactors == 4

(***************************************************************************)
(* float arithmetic                                                        *)
(***************************************************************************)
Abs(i) == IF i < 0 THEN -i ELSE i

Sign(i) == IF i < 0 THEN -1 ELSE IF i > 0 THEN 1 ELSE 0

RECURSIVE GCD(_, _)
GCD(a, b) == IF b = 0 THEN a ELSE GCD(b, a % b)

\* the float with value n/d (d # 0), in lowest terms with d > 0
Rat(n, d) ==
    LET g == GCD(Abs(n), Abs(d))
    IN  [n |-> (Sign(d) * n) \div g, d |-> Abs(d) \div g]

Num(i) == [n |-> i, d |-> 1]

Zero == Num(0)
Hundred == Num(100)
PosInf == [n |-> 1, d |-> 0]
NegInf == [n |-> -1, d |-> 0]
NaN == [n |-> 0, d |-> 0]

IsNaN(x) == x.d = 0 /\ x.n = 0
IsInf(x) == x.d = 0 /\ x.n # 0
IsFinite(x) == x.d # 0
IsZero(x) == x.d # 0 /\ x.n = 0

\* -x
Neg(x) == [n |-> -x.n, d |-> x.d]

\* x + y
Add(x, y) ==
    IF IsNaN(x) \/ IsNaN(y) THEN NaN
    ELSE IF IsInf(x) /\ IsInf(y) THEN (IF x.n = y.n THEN x ELSE NaN)
    ELSE IF IsInf(x) THEN x
    ELSE IF IsInf(y) THEN y
    ELSE Rat(x.n * y.d + y.n * x.d, x.d * y.d)

\* x - y
Sub(x, y) == Add(x, Neg(y))

\* x * y
Mul(x, y) ==
    IF IsNaN(x) \/ IsNaN(y) THEN NaN
    ELSE IF IsInf(x) \/ IsInf(y)
         THEN (IF x.n = 0 \/ y.n = 0 THEN NaN
               ELSE IF Sign(x.n) = Sign(y.n) THEN PosInf ELSE NegInf)
    ELSE Rat(x.n * y.n, x.d * y.d)

\* the quotient x / y for a divisor y that is not zero
Quot(x, y) ==
    IF IsNaN(x) \/ IsNaN(y) THEN NaN
    ELSE IF IsInf(x) /\ IsInf(y) THEN NaN
    ELSE IF IsInf(y) THEN Zero
    ELSE IF IsInf(x) THEN (IF Sign(x.n) = Sign(y.n) THEN PosInf ELSE NegInf)
    ELSE Rat(x.n * y.d, x.d * y.n)

\* x < y (every comparison with nan is false)
Lt(x, y) ==
    IF IsNaN(x) \/ IsNaN(y) THEN FALSE
    ELSE IF IsInf(x) \/ IsInf(y)
         THEN (IF IsInf(x) /\ IsInf(y) THEN x.n < y.n
               ELSE IF IsInf(x) THEN x.n < 0
               ELSE y.n > 0)
    ELSE x.n * y.d < y.n * x.d

Gt(x, y) == Lt(y, x)

Le(x, y) == Lt(x, y) \/ (~IsNaN(x) /\ x = y)

\* abs(x)
FAbs(x) == [n |-> Abs(x.n), d |-> x.d]

(***************************************************************************)
(* outcomes of a call: a returned value or a raised exception              *)
(***************************************************************************)
Return(v) == [exc |-> FALSE, value |-> v]

ZeroDivisionError == [exc |-> TRUE, value |-> "ZeroDivisionError"]

\* Python's x / y on floats: raises when the divisor is zero
TrueDiv(x, y) == IF IsZero(y) THEN ZeroDivisionError ELSE Return(Quot(x, y))

(***************************************************************************)
(* ai_generated_models.py: the six sub-formulas                            *)
(***************************************************************************)
\* variant: the ratio is not scaled to a percentage
calculate_roi_unscaled(potential_revenue, profit_margin, initial_investment) ==
    LET profit == Mul(potential_revenue, Quot(profit_margin, Hundred))
    IN  TrueDiv(Sub(profit, initial_investment), initial_investment)

calculate_roi(potential_revenue, profit_margin, initial_investment) ==
    LET profit == Mul(potential_revenue, Quot(profit_margin, Hundred))
        q == TrueDiv(Sub(profit, initial_investment), initial_investment)
    IN  IF q.exc THEN q ELSE Return(Mul(q.value, Hundred))

\* variant: no guard for the empty competitor list
calculate_competitor_density_unguarded(market_cap, competitors) ==
    TrueDiv(market_cap, Num(Len(competitors)))

calculate_competitor_density(market_cap, competitors) ==
    IF Len(competitors) > 0
    THEN TrueDiv(market_cap, Num(Len(competitors)))
    ELSE Return(Zero)

\* variant: the guard tests competitor_density != 0 instead of > 0
calculate_market_attractiveness_nonzero(growth_rate, competitor_density) ==
    IF ~IsZero(competitor_density)
    THEN TrueDiv(growth_rate, competitor_density)
    ELSE Return(Zero)

calculate_market_attractiveness(growth_rate, competitor_density) ==
    IF Gt(competitor_density, Zero)
    THEN TrueDiv(growth_rate, competitor_density)
    ELSE Return(Zero)

\* variant: the ratio is inverted, annual_profit / initial_investment
calculate_payback_period_inverted(initial_investment, annual_profit) ==
    IF Gt(annual_profit, Zero)
    THEN TrueDiv(annual_profit, initial_investment)
    ELSE Return(PosInf)

\* variant: the guard tests annual_profit >= 0 instead of > 0
calculate_payback_period_ge(initial_investment, annual_profit) ==
    IF Le(Zero, annual_profit)
    THEN TrueDiv(initial_investment, annual_profit)
    ELSE Return(PosInf)

\* variant: the fallback is 0 instead of math.inf
calculate_payback_period_zero(initial_investment, annual_profit) ==
    IF Gt(annual_profit, Zero)
    THEN TrueDiv(initial_investment, annual_profit)
    ELSE Return(Zero)

calculate_payback_period(initial_investment, annual_profit) ==
    IF Gt(annual_profit, Zero)
    THEN TrueDiv(initial_investment, annual_profit)
    ELSE Return(PosInf)

\* Python's max(0, x): x when x > 0, else 0
Max0(x) == IF Gt(x, Zero) THEN x ELSE Zero

calculate_market_saturation_score(market_saturation) ==
    TrueDiv(Max0(Sub(Hundred, market_saturation)), Hundred)

calculate_customer_profitability(lifetime_value, acquisition_cost) ==
    Return(Sub(lifetime_value, acquisition_cost))

(***************************************************************************)
(* ai_generated_models.py: rank_business_idea                              *)
(***************************************************************************)
\* variant: the payback period is added instead of subtracted
rank_score_plus_payback(roi, market_attractiveness, market_saturation_score, customer_profitability, payback_period) ==
    Add(Add(Add(Add(Mul(roi, Rat(3, 10)),
                    Mul(market_attractiveness, Rat(2, 10))),
                Mul(market_saturation_score, Rat(2, 10))),
            Mul(customer_profitability, Rat(2, 10))),
        Mul(payback_period, Rat(1, 10)))

\* the weighting of lines 217-223
rank_score(roi, market_attractiveness, market_saturation_score, customer_profitability, payback_period) ==
    Sub(Add(Add(Add(Mul(roi, Rat(3, 10)),
                    Mul(market_attractiveness, Rat(2, 10))),
                Mul(market_saturation_score, Rat(2, 10))),
            Mul(customer_profitability, Rat(2, 10))),
        Mul(payback_period, Rat(1, 10)))

BusinessAnalysisResult(business, roi, market_attractiveness, competitor_density, payback_period, customer_profitability, market_saturation_score, score, swot) ==
    [business_name |-> business.name,
     industry |-> business.industry,
     roi_percentage |-> roi,
     market_attractiveness |-> market_attractiveness,
     competitor_density |-> competitor_density,
     payback_period_years |-> payback_period,
     customer_profitability |-> customer_profitability,
     market_saturation_score |-> market_saturation_score,
     rank_score |-> score,
     swot_analysis |-> swot]

rank_business_idea(business, swot) ==
    LET roi == calculate_roi(business.potential_revenue, business.profit_margin,
                             business.initial_investment)
        competitor_density ==
            calculate_competitor_density(business.market_cap, business.competitors)
        market_attractiveness ==
            calculate_market_attractiveness(business.growth_rate,
                                            competitor_density.value)
        payback_period ==
            calculate_payback_period(
                business.initial_investment,
                Mul(business.potential_revenue, Quot(business.profit_margin, Hundred)))
        customer_profitability ==
            calculate_customer_profitability(business.customer_lifetime_value,
                                             business.customer_acquisition_cost)
        market_saturation_score ==
            calculate_market_saturation_score(business.market_saturation)
    IN  IF roi.exc THEN roi
        ELSE IF competitor_density.exc THEN competitor_density
        ELSE IF market_attractiveness.exc THEN market_attractiveness
        ELSE IF payback_period.exc THEN payback_period
        ELSE IF customer_profitability.exc THEN customer_profitability
        ELSE IF market_saturation_score.exc THEN market_saturation_score
        ELSE Return(BusinessAnalysisResult(
                 business, roi.value, market_attractiveness.value,
                 competitor_density.value, payback_period.value,
                 customer_profitability.value, market_saturation_score.value,
                 rank_score(roi.value, market_attractiveness.value,
                            market_saturation_score.value,
                            customer_profitability.value, payback_period.value),
                 swot))

(***************************************************************************)
(* input domains                                                           *)
(***************************************************************************)
Nums(S) == {Num(i) : i \in S}

\* competitor lists of up to MaxCompetitors names
CompetitorLists == {[i \in 1..k |-> <<"A", "B", "C", "D">>[i]] : k \in 0..MaxCompetitors}

\* an Optional[SWOTAnalysis]: <<>> is None
SWOTAnalysis == [strengths |-> <<"team">>, weaknesses |-> <<"cost">>,
                 opportunities |-> <<"demand">>, threats |-> <<>>]

OptionalSWOT == {<<>>, <<SWOTAnalysis>>}

BusinessIdeas ==
    [name : {"Acme"},
     industry : {"Software"},
     market_cap : Nums({-4, 0, 4}),
     competitors : CompetitorLists,
     growth_rate : Nums({-2, 3}),
     initial_investment : Nums({-2, 0, 2}),
     potential_revenue : Nums({-100, 0, 100}),
     profit_margin : Nums({1, 4}),
     customer_acquisition_cost : Nums({1, 3}),
     customer_lifetime_value : Nums({2}),
     market_saturation : Nums({-50, 40, 100, 150})]

NoArgs == [none |-> TRUE]
NoSelf == [none |-> TRUE]
NotReturned == [exc |-> FALSE, value |-> "pending"]

(***************************************************************************)
(* the financial scoring engine: a call is set up with its arguments and   *)
(* the called function runs to its return or its exception                 *)
(***************************************************************************)
InitRank ==
    /\ fn = "rank_business_idea"
    /\ \E b \in BusinessIdeas, s \in OptionalSWOT : args = [business |-> b, swot |-> s]

InitRoi ==
    /\ fn = "calculate_roi"
    /\ args \in [potential_revenue : Nums({-100, 0, 100, 100000}),
                 profit_margin : Nums({-4, 0, 4, 20}),
                 initial_investment : Nums({-2, 0, 2, 50000})]

InitCompetitorDensity ==
    /\ fn = "calculate_competitor_density"
    /\ args \in [market_cap : Nums({-4, 0, 4, 1000000}), competitors : CompetitorLists]

InitMarketAttractiveness ==
    /\ fn = "calculate_market_attractiveness"
    /\ args \in [growth_rate : Nums({-2, 0, 3}),
                 competitor_density : Nums({-4, 0, 2, 4}) \cup {Rat(1, 2)}]

InitPaybackPeriod ==
    /\ fn = "calculate_payback_period"
    /\ args \in [initial_investment : Nums({-2, 0, 2, 50000}),
                 annual_profit : Nums({-4, 0, 4, 25000})]

InitMarketSaturationScore ==
    /\ fn = "calculate_market_saturation_score"
    /\ args \in [market_saturation : Nums({-50, 0, 40, 99, 100, 101, 150})]

InitCustomerProfitability ==
    /\ fn = "calculate_customer_profitability"
    /\ args \in [lifetime_value : Nums({-1, 0, 2, 500}),
                 acquisition_cost : Nums({-1, 0, 3, 200})]

Init ==
    /\ pc = "call"
    /\ ret = NotReturned
    /\ self = NoSelf
    /\ \/ InitRank
       \/ InitRoi
       \/ InitCompetitorDensity
       \/ InitMarketAttractiveness
       \/ InitPaybackPeriod
       \/ InitMarketSaturationScore
       \/ InitCustomerProfitability

Finish(outcome) ==
    /\ pc' = "return"
    /\ ret' = outcome
    /\ UNCHANGED <<fn, args, self>>

RankBusinessIdea ==
    /\ fn = "rank_business_idea"
    /\ Finish(rank_business_idea(args.business, args.swot))

CalculateRoi ==
    /\ fn = "calculate_roi"
    /\ Finish(calculate_roi(args.potential_revenue, args.profit_margin,
                            args.initial_investment))

CalculateCompetitorDensity ==
    /\ fn = "calculate_competitor_density"
    /\ Finish(calculate_competitor_density(args.market_cap, args.competitors))

CalculateMarketAttractiveness ==
    /\ fn = "calculate_market_attractiveness"
    /\ Finish(calculate_market_attractiveness(args.growth_rate, args.competitor_density))

CalculatePaybackPeriod ==
    /\ fn = "calculate_payback_period"
    /\ Finish(calculate_payback_period(args.initial_investment, args.annual_profit))

CalculateMarketSaturationScore ==
    /\ fn = "calculate_market_saturation_score"
    /\ Finish(calculate_market_saturation_score(args.market_saturation))

CalculateCustomerProfitability ==
    /\ fn = "calculate_customer_profitability"
    /\ Finish(calculate_customer_profitability(args.lifetime_value, args.acquisition_cost))

Next ==
    \/ RankBusinessIdea
    \/ CalculateRoi
    \/ CalculateCompetitorDensity
    \/ CalculateMarketAttractiveness
    \/ CalculatePaybackPeriod
    \/ CalculateMarketSaturationScore
    \/ CalculateCustomerProfitability

Spec == Init /\ [][Next]_vars

(***************************************************************************)
(* ai_generated_swot.py: SWOTAnalysisQuantitative                          *)
(***************************************************************************)
WeightedSWOTFactor(description, weight) ==
    [description |-> description, weight |-> weight]

\* Python's sum(factor.weight for factor in factors): a left fold from 0
RECURSIVE sum_weights(_)
sum_weights(factors) ==
    IF factors = <<>> THEN Zero
    ELSE Add(sum_weights(SubSeq(factors, 1, Len(factors) - 1)),
             factors[Len(factors)].weight)

\* variant: each category is summed by magnitude
category_weight_summaries_abs(swot) ==
    LET magnitudes(factors) ==
            [i \in 1..Len(factors) |-> [factors[i] EXCEPT !.weight = FAbs(@)]]
    IN  [strengths |-> sum_weights(magnitudes(swot.strengths)),
         weaknesses |-> sum_weights(magnitudes(swot.weaknesses)),
         opportunities |-> sum_weights(magnitudes(swot.opportunities)),
         threats |-> sum_weights(magnitudes(swot.threats))]

\* variant: the negative score is added instead of subtracted
calculate_net_positive_score_added(swot) ==
    Add(sum_weights(swot.strengths \o swot.opportunities),
        sum_weights(swot.weaknesses \o swot.threats))

calculate_net_positive_score(swot) ==
    LET positive_score == sum_weights(swot.strengths \o swot.opportunities)
        negative_score == sum_weights(swot.weaknesses \o swot.threats)
    IN  Sub(positive_score, negative_score)

category_weight_summaries(swot) ==
    [strengths |-> sum_weights(swot.strengths),
     weaknesses |-> sum_weights(swot.weaknesses),
     opportunities |-> sum_weights(swot.opportunities),
     threats |-> sum_weights(swot.threats)]

PositiveOutlook ==
    "The overall analysis indicates a positive outlook for the business idea."
SignificantChallenges ==
    "The overall analysis indicates significant challenges that may outweigh benefits."
Balanced ==
    "The analysis is balanced; careful consideration of strengths and weaknesses is needed."
OpportunitiesOutweigh ==
    "Opportunities outweigh threats, suggesting potential for growth."
ThreatsOutweigh ==
    "Threats outweigh opportunities; risk mitigation strategies are advised."
StrengthsOutweigh ==
    "Strengths outweigh weaknesses, indicating a solid foundation."
WeaknessesOutweigh ==
    "Weaknesses outweigh strengths; addressing these issues is critical."

\* variant: the category comparisons are >= instead of >
generate_swot_insights_ge(swot) ==
    LET net_score == calculate_net_positive_score(swot)
        category_summaries == category_weight_summaries(swot)
    IN  <<IF Gt(net_score, Zero) THEN PositiveOutlook
          ELSE IF Lt(net_score, Zero) THEN SignificantChallenges
          ELSE Balanced,
          IF Le(category_summaries.threats, category_summaries.opportunities)
          THEN OpportunitiesOutweigh ELSE ThreatsOutweigh,
          IF Le(category_summaries.weaknesses, category_summaries.strengths)
          THEN StrengthsOutweigh ELSE WeaknessesOutweigh>>

generate_swot_insights(swot) ==
    LET net_score == calculate_net_positive_score(swot)
        category_summaries == category_weight_summaries(swot)
    IN  <<IF Gt(net_score, Zero) THEN PositiveOutlook
          ELSE IF Lt(net_score, Zero) THEN SignificantChallenges
          ELSE Balanced,
          IF Gt(category_summaries.opportunities, category_summaries.threats)
          THEN OpportunitiesOutweigh ELSE ThreatsOutweigh,
          IF Gt(category_summaries.strengths, category_summaries.weaknesses)
          THEN StrengthsOutweigh ELSE WeaknessesOutweigh>>

\* variant: an ascending sort that is then reversed, which reverses equal keys
RECURSIVE sorted_by_abs_weight_reversed(_)
sorted_by_abs_weight_reversed(factors) ==
    IF factors = <<>> THEN <<>>
    ELSE LET ranked == sorted_by_abs_weight_reversed(SubSeq(factors, 1, Len(factors) - 1))
             x == factors[Len(factors)]
             p == Cardinality({i \in 1..Len(ranked) :
                                 Lt(FAbs(x.weight), FAbs(ranked[i].weight))})
         IN  SubSeq(ranked, 1, p) \o <<x>> \o SubSeq(ranked, p + 1, Len(ranked))

\* sorted(factors, key=lambda factor: abs(factor.weight), reverse=True): a stable
\* sort; each factor goes behind the ranked factors whose key is not smaller
RECURSIVE sorted_by_abs_weight(_)
sorted_by_abs_weight(factors) ==
    IF factors = <<>> THEN <<>>
    ELSE LET ranked == sorted_by_abs_weight(SubSeq(factors, 1, Len(factors) - 1))
             x == factors[Len(factors)]
             p == Cardinality({i \in 1..Len(ranked) :
                                 Le(FAbs(x.weight), FAbs(ranked[i].weight))})
         IN  SubSeq(ranked, 1, p) \o <<x>> \o SubSeq(ranked, p + 1, Len(ranked))

Descriptions(factors) == [i \in 1..Len(factors) |-> factors[i].description]

\* seq[:3]
First3(seq) == SubSeq(seq, 1, IF Len(seq) < 3 THEN Len(seq) ELSE 3)

\* seq[-3:]
Last3(seq) == SubSeq(seq, IF Len(seq) < 3 THEN 1 ELSE Len(seq) - 2, Len(seq))

\* variant: a factor already listed as most impactful is left out of the least
\* impactful
rank_swot_impact_deduplicated(swot) ==
    LET all_factors == swot.strengths \o swot.weaknesses
                       \o swot.opportunities \o swot.threats
        ranked_factors == sorted_by_abs_weight(all_factors)
        most == Descriptions(First3(ranked_factors))
        IsNew(d) == \A i \in 1..Len(most) : most[i] # d
    IN  [most_impactful |-> most,
         least_impactful |-> SelectSeq(Descriptions(Last3(ranked_factors)), IsNew)]

rank_swot_impact(swot) ==
    LET all_factors == swot.strengths \o swot.weaknesses
                       \o swot.opportunities \o swot.threats
        ranked_factors == sorted_by_abs_weight(all_factors)
    IN  [most_impactful |-> Descriptions(First3(ranked_factors)),
         least_impactful |-> Descriptions(Last3(ranked_factors))]

(***************************************************************************)
(* SWOT input domain                                                       *)
(***************************************************************************)
Categories == {"strengths", "weaknesses", "opportunities", "threats"}

Weights == Nums({-1, 0, 2})

FactorNames ==
    [strengths |-> <<"S1", "S2", "S3", "S4", "S5", "S6">>,
     weaknesses |-> <<"W1", "W2", "W3", "W4", "W5", "W6">>,
     opportunities |-> <<"O1", "O2", "O3", "O4", "O5", "O6">>,
     threats |-> <<"T1", "T2", "T3", "T4", "T5", "T6">>]

EmptySWOT == [strengths |-> <<>>, weaknesses |-> <<>>,
              opportunities |-> <<>>, threats |-> <<>>]

WithFactor(swot, c, w) ==
    [swot EXCEPT ![c] = Append(@, WeightedSWOTFactor(FactorNames[c][Len(@) + 1], w))]

\* the SWOT analyses with n factors in all
RECURSIVE SWOTsOfSize(_)
SWOTsOfSize(n) ==
    IF n = 0 THEN {EmptySWOT}
    ELSE {WithFactor(o, c, w) : o \in SWOTsOfSize(n - 1), c \in Categories, w \in Weights}

\* the object of the module's example usage
swot_quant ==
    [strengths |-> <<WeightedSWOTFactor("Innovative technology", Num(8)),
                     WeightedSWOTFactor("Experienced team", Rat(15, 2))>>,
     weaknesses |-> <<WeightedSWOTFactor("High cost of implementation", Num(-6)),
                      WeightedSWOTFactor("Limited initial customer base", Num(-4))>>,
     opportunities |-> <<WeightedSWOTFactor("Growing market demand", Num(9)),
                         WeightedSWOTFactor("Partnership opportunities", Num(5))>>,
     threats |-> <<WeightedSWOTFactor("Strong competition", Num(-7)),
                   WeightedSWOTFactor("Economic downturn risks", Rat(-11, 2))>>]

\* the analyses with one factor in each category, of weight -2, -1, 1 or 2
OneFactorEach ==
    {WithFactor(WithFactor(WithFactor(WithFactor(EmptySWOT, "strengths", w[1]),
                                      "weaknesses", w[2]),
                           "opportunities", w[3]),
                "threats", w[4]) :
        w \in [1..4 -> Nums({-2, -1, 1, 2})]}

\* those with a second strength of weight 1: five factors
TwoStrengths == {WithFactor(o, "strengths", Num(1)) : o \in OneFactorEach}

SWOTInputs ==
    UNION {SWOTsOfSize(n) : n \in 0..MaxFactors}
        \cup OneFactorEach \cup TwoStrengths \cup {swot_quant}

(***************************************************************************)
(* the quantitative SWOT engine: the methods of one object, called in any  *)
(* order                                                                   *)
(***************************************************************************)
InitSWOT ==
    /\ pc = "call"
    /\ fn = "none"
    /\ args = NoArgs
    /\ ret = NotReturned
    /\ self \in SWOTInputs

Method(name, value) ==
    /\ pc' = "return"
    /\ fn' = name
    /\ ret' = Return(value)
    /\ UNCHANGED <<args, self>>

CalculateNetPositiveScore ==
    /\ pc \in {"call", "return"}
    /\ Method("calculate_net_positive_score", calculate_net_positive_score(self))

CategoryWeightSummaries ==
    /\ pc \in {"call", "return"}
    /\ Method("category_weight_summaries", category_weight_summaries(self))

GenerateSwotInsights ==
    /\ pc \in {"call", "return"}
    /\ Method("generate_swot_insights", generate_swot_insights(self))

RankSwotImpact ==
    /\ pc \in {"call", "return"}
    /\ Method("rank_swot_impact", rank_swot_impact(self))

NextSWOT ==
    \/ CalculateNetPositiveScore
    \/ CategoryWeightSummaries
    \/ GenerateSwotInsights
    \/ RankSwotImpact

SpecSWOT == InitSWOT /\ [][NextSWOT]_vars

(***************************************************************************)
(* properties of the financial scoring engine                              *)
(***************************************************************************)
Returned(f) == pc = "return" /\ fn = f

\* revenue * margin / 100, the annual profit of an idea
AnnualProfit(b) == Quot(Mul(b.potential_revenue, b.profit_margin), Hundred)

\* C1: for every idea with initial_investment != 0, rank_business_idea returns a
\* result whose rank_score is 0.3*roi + 0.2*market_attractiveness +
\* 0.2*market_saturation_score + 0.2*customer_profitability - 0.1*payback_period
\* over the result's own fields, each field is its sub-formula applied to the idea
\* (payback fed the annual profit, attractiveness fed the computed density), and
\* business_name, industry and the optional swot are copied through.
C1_RankScoreIsWeightedSum ==
    (Returned("rank_business_idea") /\ ~IsZero(args.business.initial_investment)) =>
        /\ ~ret.exc
        /\ LET r == ret.value
               b == args.business
           IN  /\ r.rank_score =
                      Sub(Add(Add(Add(Mul(Rat(3, 10), r.roi_percentage),
                                      Mul(Rat(1, 5), r.market_attractiveness)),
                                  Mul(Rat(1, 5), r.market_saturation_score)),
                              Mul(Rat(1, 5), r.customer_profitability)),
                          Mul(Rat(1, 10), r.payback_period_years))
               /\ Return(r.roi_percentage) =
                      calculate_roi(b.potential_revenue, b.profit_margin,
                                    b.initial_investment)
               /\ Return(r.competitor_density) =
                      calculate_competitor_density(b.market_cap, b.competitors)
               /\ Return(r.market_attractiveness) =
                      calculate_market_attractiveness(b.growth_rate, r.competitor_density)
               /\ Return(r.payback_period_years) =
                      calculate_payback_period(b.initial_investment, AnnualProfit(b))
               /\ Return(r.customer_profitability) =
                      calculate_customer_profitability(b.customer_lifetime_value,
                                                       b.customer_acquisition_cost)
               /\ Return(r.market_saturation_score) =
                      calculate_market_saturation_score(b.market_saturation)
               /\ r.business_name = b.name
               /\ r.industry = b.industry
               /\ r.swot_analysis = args.swot

\* a ranked idea with a swot, a finite payback period and a non-zero score
C1_Witness ==
    /\ Returned("rank_business_idea")
    /\ ~ret.exc
    /\ args.swot # <<>>
    /\ ret.value.swot_analysis = <<SWOTAnalysis>>
    /\ IsFinite(ret.value.payback_period_years)
    /\ Gt(ret.value.market_attractiveness, Zero)
    /\ IsFinite(ret.value.rank_score)
    /\ ~IsZero(ret.value.rank_score)

\* the rank scores of the ideas whose payback period is finite
FinitePaybackScores ==
    {rank_business_idea(b, <<>>).value.rank_score :
        b \in {i \in BusinessIdeas :
                 /\ ~rank_business_idea(i, <<>>).exc
                 /\ IsFinite(rank_business_idea(i, <<>>).value.payback_period_years)}}

\* C2: for every idea with initial_investment > 0 and annual profit <= 0,
\* rank_business_idea returns without error, payback_period_years is +infinity,
\* rank_score is -infinity, and that score is strictly below the score of every
\* idea whose payback period is finite.
C2_NeverBreakEvenRanksLast ==
    (/\ Returned("rank_business_idea")
     /\ Gt(args.business.initial_investment, Zero)
     /\ Le(AnnualProfit(args.business), Zero)) =>
        /\ ~ret.exc
        /\ ret.value.payback_period_years = PosInf
        /\ ret.value.rank_score = NegInf
        /\ \A s \in FinitePaybackScores : Lt(ret.value.rank_score, s)

\* a never-break-even idea has been ranked, and ideas with a finite payback exist
C2_Witness ==
    /\ Returned("rank_business_idea")
    /\ Gt(args.business.initial_investment, Zero)
    /\ Lt(AnnualProfit(args.business), Zero)
    /\ ~ret.exc
    /\ ret.value.rank_score = NegInf
    /\ \E s \in FinitePaybackScores : IsFinite(s) /\ Lt(s, Zero)

\* the value (revenue*margin/100 - investment)/investment*100
RoiFormula(r, m, i) == Mul(Quot(Sub(Quot(Mul(r, m), Hundred), i), i), Hundred)

RoiExample ==
    [potential_revenue |-> Num(100000), profit_margin |-> Num(20),
     initial_investment |-> Num(50000)]

\* what C3 says of calculate_roi and rank_business_idea, with `example` the value
\* it gives for calculate_roi(100000, 20, 50000)
RoiContract(example) ==
    /\ Returned("calculate_roi") =>
          IF IsZero(args.initial_investment)
          THEN ret = ZeroDivisionError
          ELSE /\ ret = Return(RoiFormula(args.potential_revenue, args.profit_margin,
                                          args.initial_investment))
               /\ args = RoiExample => ret.value = example
    /\ (Returned("rank_business_idea") /\ IsZero(args.business.initial_investment)) =>
          ret = ZeroDivisionError

\* C3 (as amended): calculate_roi returns (revenue*margin/100 - investment) /
\* investment * 100 whenever initial_investment != 0, which is -60 for
\* (100000, 20, 50000); with initial_investment = 0 it ends in a division fault,
\* and so does rank_business_idea, which then produces no result.
C3_RoiFormulaAndFault == RoiContract(Num(-60))

\* C3 (as claimed): the same, with 60 as the value for (100000, 20, 50000)
C3_AsClaimed == RoiContract(Num(60))

\* calculate_roi(100000, 20, 50000) has returned -60
C3_Witness ==
    /\ Returned("calculate_roi")
    /\ args = RoiExample
    /\ ret = Return(Num(-60))

\* C4: calculate_payback_period returns +infinity for every annual_profit <= 0,
\* zero included, without a division fault, and initial_investment / annual_profit
\* for every annual_profit > 0 (2 for (50000, 25000)).
C4_PaybackPeriod ==
    Returned("calculate_payback_period") =>
        /\ ~ret.exc
        /\ Le(args.annual_profit, Zero) => ret.value = PosInf
        /\ Gt(args.annual_profit, Zero) =>
               ret.value = Quot(args.initial_investment, args.annual_profit)
        /\ (args.initial_investment = Num(50000) /\ args.annual_profit = Num(25000)) =>
               ret.value = Num(2)

\* calculate_payback_period(50000, 0) has returned +infinity
C4_Witness ==
    /\ Returned("calculate_payback_period")
    /\ args.initial_investment = Num(50000)
    /\ args.annual_profit = Zero
    /\ ret = Return(PosInf)

\* C5: calculate_competitor_density returns 0 for an empty competitor list, for
\* every market_cap and without a division fault, and market_cap divided by the
\* number of competitors otherwise (500000 for 1000000 and two competitors).
C5_CompetitorDensity ==
    Returned("calculate_competitor_density") =>
        /\ ~ret.exc
        /\ args.competitors = <<>> => ret.value = Zero
        /\ args.competitors # <<>> =>
               ret.value = Quot(args.market_cap, Num(Len(args.competitors)))
        /\ (args.market_cap = Num(1000000) /\ args.competitors = <<"A", "B">>) =>
               ret.value = Num(500000)

\* calculate_competitor_density(1000000, ["A", "B"]) has returned 500000
C5_Witness ==
    /\ Returned("calculate_competitor_density")
    /\ args.market_cap = Num(1000000)
    /\ args.competitors = <<"A", "B">>
    /\ ret = Return(Num(500000))

\* C6: calculate_market_attractiveness returns 0 for every competitor_density <= 0
\* and growth_rate / competitor_density for every competitor_density > 0; so
\* rank_business_idea on an idea with no competitors or a non-positive market_cap
\* records competitor_density <= 0 and market_attractiveness = 0 and does not
\* fault on that division (its only fault is the one of calculate_roi).
C6_MarketAttractiveness ==
    /\ Returned("calculate_market_attractiveness") =>
          /\ ~ret.exc
          /\ Le(args.competitor_density, Zero) => ret.value = Zero
          /\ Gt(args.competitor_density, Zero) =>
                 ret.value = Quot(args.growth_rate, args.competitor_density)
    /\ (/\ Returned("rank_business_idea")
        /\ \/ args.business.competitors = <<>>
           \/ Le(args.business.market_cap, Zero)) =>
          IF ret.exc
          THEN IsZero(args.business.initial_investment)
          ELSE /\ Le(ret.value.competitor_density, Zero)
               /\ ret.value.market_attractiveness = Zero

\* an idea with competitors, a zero market_cap and a non-zero growth rate has been
\* ranked with market_attractiveness 0
C6_Witness ==
    /\ Returned("rank_business_idea")
    /\ ~ret.exc
    /\ args.business.competitors # <<>>
    /\ args.business.market_cap = Zero
    /\ ~IsZero(args.business.growth_rate)
    /\ ret.value.competitor_density = Zero
    /\ ret.value.market_attractiveness = Zero

\* C7: for every market_saturation value, calculate_market_saturation_score
\* returns max(0, 100 - market_saturation)/100, the result is in [0, 1], and it is
\* 0 for every market_saturation >= 100 (0 for 150, 3/5 for 40).
C7_SaturationScoreInUnitRange ==
    Returned("calculate_market_saturation_score") =>
        LET s == args.market_saturation
            d == Sub(Hundred, s)
        IN  /\ ret = Return(Quot(IF Lt(d, Zero) THEN Zero ELSE d, Hundred))
            /\ Le(Zero, ret.value) /\ Le(ret.value, Num(1))
            /\ Le(Hundred, s) => ret.value = Zero
            /\ s = Num(150) => ret.value = Zero
            /\ s = Num(40) => ret.value = Rat(3, 5)

(***************************************************************************)
(* properties of the quantitative SWOT engine                              *)
(***************************************************************************)
\* the total of the weights of a category, summed from its first factor on
RECURSIVE TotalWeight(_)
TotalWeight(factors) ==
    IF factors = <<>> THEN Zero
    ELSE Add(factors[1].weight, TotalWeight(Tail(factors)))

\* (strengths + opportunities) - (weaknesses + threats), on the signed weights
NetOf(swot) ==
    Sub(Add(TotalWeight(swot.strengths), TotalWeight(swot.opportunities)),
        Add(TotalWeight(swot.weaknesses), TotalWeight(swot.threats)))

\* C8: calculate_net_positive_score returns (sum of strengths weights + sum of
\* opportunities weights) - (sum of weaknesses weights + sum of threats weights)
\* on the signed weights as supplied; it is 52 for the example object.
C8_NetPositiveScore ==
    Returned("calculate_net_positive_score") =>
        /\ ret = Return(NetOf(self))
        /\ self = swot_quant => ret.value = Num(52)

\* the net score of the example object has been computed as 52
C8_Witness ==
    /\ Returned("calculate_net_positive_score")
    /\ self = swot_quant
    /\ ret = Return(Num(52))

\* C9: generate_swot_insights returns exactly three strings: the first is the
\* positive-outlook string iff net > 0, the significant-challenges string iff
\* net < 0, the balanced string iff net = 0; the second is the
\* opportunities-outweigh string iff sum(opportunities) > sum(threats), else the
\* threats-outweigh string; the third is the strengths-outweigh string iff
\* sum(strengths) > sum(weaknesses), else the weaknesses-outweigh string.
C9_ThreeInsights ==
    Returned("generate_swot_insights") =>
        LET insights == ret.value
            net == NetOf(self)
            o == TotalWeight(self.opportunities)
            t == TotalWeight(self.threats)
            s == TotalWeight(self.strengths)
            w == TotalWeight(self.weaknesses)
        IN  /\ ~ret.exc
            /\ Len(insights) = 3
            /\ insights[1] \in {PositiveOutlook, SignificantChallenges, Balanced}
            /\ insights[1] = PositiveOutlook <=> Gt(net, Zero)
            /\ insights[1] = SignificantChallenges <=> Lt(net, Zero)
            /\ insights[1] = Balanced <=> net = Zero
            /\ insights[2] \in {OpportunitiesOutweigh, ThreatsOutweigh}
            /\ insights[2] = OpportunitiesOutweigh <=> Gt(o, t)
            /\ insights[3] \in {StrengthsOutweigh, WeaknessesOutweigh}
            /\ insights[3] = StrengthsOutweigh <=> Gt(s, w)

\* insights of an object whose net score is 0 and whose categories tie, with
\* factors of non-zero weight in every category
C9_Witness ==
    /\ Returned("generate_swot_insights")
    /\ \A c \in Categories : self[c] # <<>> /\ ~IsZero(self[c][1].weight)
    /\ ret.value = <<Balanced, ThreatsOutweigh, WeaknessesOutweigh>>

\* strengths ++ weaknesses ++ opportunities ++ threats
AllFactors(swot) ==
    swot.strengths \o swot.weaknesses \o swot.opportunities \o swot.threats

\* the place of factor i in the order by absolute weight descending, equal
\* absolute weights in concatenation order
Place(all, i) ==
    1 + Cardinality({j \in 1..Len(all) :
                        \/ Gt(FAbs(all[j].weight), FAbs(all[i].weight))
                        \/ FAbs(all[j].weight) = FAbs(all[i].weight) /\ j < i})

\* the description of the factor at place k of that order
DescriptionAt(all, k) ==
    all[CHOOSE i \in 1..Len(all) : Place(all, i) = k].description

Listed(seq) == {seq[i] : i \in 1..Len(seq)}

\* C11: for any number n >= 0 of factors, the four categories all empty
\* included, the four SWOT operations return without raising; rank_swot_impact
\* returns two lists of length min(3, n) each, the same list twice when n <= 3,
\* and factors may be in both: for 3 < n < 6 they share 6 - n factors.
C11_SmallAnalyses ==
    /\ pc = "return" => ~ret.exc
    /\ Returned("rank_swot_impact") =>
          LET n == Len(AllFactors(self))
              most == ret.value.most_impactful
              least == ret.value.least_impactful
          IN  /\ Len(most) = (IF n < 3 THEN n ELSE 3)
              /\ Len(least) = (IF n < 3 THEN n ELSE 3)
              /\ n <= 3 => most = least
              /\ (3 < n /\ n < 6) =>
                     Cardinality(Listed(most) \cap Listed(least)) = 6 - n

\* the impact ranking of five factors, whose lists share one factor
C11_Witness ==
    /\ Returned("rank_swot_impact")
    /\ Len(AllFactors(self)) = 5
    /\ Len(ret.value.most_impactful) = 3
    /\ Len(ret.value.least_impactful) = 3
    /\ ret.value.most_impactful[3] = ret.value.least_impactful[1]

\* C12: category_weight_summaries returns a mapping with exactly the keys
\* strengths, weaknesses, opportunities and threats, each the signed sum of its
\* category's weights (0 for an empty category), so negative whenever the
\* category's weights sum below zero.
C12_CategorySummaries ==
    Returned("category_weight_summaries") =>
        /\ ~ret.exc
        /\ DOMAIN ret.value = Categories
        /\ \A c \in Categories :
              /\ ret.value[c] = TotalWeight(self[c])
              /\ self[c] = <<>> => ret.value[c] = Zero
              /\ Lt(TotalWeight(self[c]), Zero) => Lt(ret.value[c], Zero)
        /\ self = swot_quant =>
              ret.value = [strengths |-> Rat(31, 2), weaknesses |-> Num(-10),
                           opportunities |-> Num(14), threats |-> Rat(-25, 2)]

\* summaries with a negative strengths total, made of weights of both signs, and
\* an empty category
C12_Witness ==
    /\ Returned("category_weight_summaries")
    /\ \E i, j \in 1..Len(self.strengths) :
          Lt(self.strengths[i].weight, Zero) /\ Gt(self.strengths[j].weight, Zero)
    /\ Lt(ret.value.strengths, Zero)
    /\ self.threats = <<>> /\ ret.value.threats = Zero

\* C14 (as amended): calculate_payback_period(0, annual_profit) surfaces no
\* division fault: it returns 0 for every annual_profit > 0 and +infinity for
\* every annual_profit <= 0.
C14_ZeroInvestmentPayback ==
    (Returned("calculate_payback_period") /\ IsZero(args.initial_investment)) =>
        /\ ~ret.exc
        /\ Gt(args.annual_profit, Zero) => ret.value = Zero
        /\ Le(args.annual_profit, Zero) => ret.value = PosInf

\* C14 (as claimed): calculate_payback_period(0, annual_profit) surfaces a
\* division fault for every annual_profit rather than returning a value.
C14_AsClaimed ==
    (Returned("calculate_payback_period") /\ IsZero(args.initial_investment)) =>
        ret = ZeroDivisionError

\* calculate_payback_period(0, 4) has returned 0
C14_Witness ==
    /\ Returned("calculate_payback_period")
    /\ args.initial_investment = Zero
    /\ args.annual_profit = Num(4)
    /\ ret = Return(Zero)

\* a calculate_roi call with initial_investment > 0, profit_margin >= 0 and
\* potential_revenue >= 0 has returned
RoiOfSoundInputs ==
    /\ Returned("calculate_roi")
    /\ Gt(args.initial_investment, Zero)
    /\ Le(Zero, args.profit_margin)
    /\ Le(Zero, args.potential_revenue)

\* C15 (as amended): for initial_investment > 0, profit_margin >= 0 and
\* potential_revenue >= 0, calculate_roi returns a finite number that is >= -100,
\* and > -100 exactly when the profit revenue*margin/100 is positive (a zero
\* profit gives exactly -100).
C15_RoiAtLeastMinus100 ==
    RoiOfSoundInputs =>
        LET profit == Quot(Mul(args.potential_revenue, args.profit_margin), Hundred)
        IN  /\ ~ret.exc
            /\ IsFinite(ret.value)
            /\ Le(Num(-100), ret.value)
            /\ Gt(ret.value, Num(-100)) <=> Gt(profit, Zero)
            /\ IsZero(profit) => ret.value = Num(-100)

\* C15 (as claimed): for those inputs calculate_roi returns a finite number
\* > -100 whenever the profit is non-negative, zero profit included.
C15_AsClaimed ==
    RoiOfSoundInputs =>
        LET profit == Quot(Mul(args.potential_revenue, args.profit_margin), Hundred)
        IN  /\ ~ret.exc
            /\ IsFinite(ret.value)
            /\ Le(Zero, profit) => Gt(ret.value, Num(-100))

\* calculate_roi of a positive revenue at margin 0 has returned -100
C15_Witness ==
    /\ RoiOfSoundInputs
    /\ Gt(args.potential_revenue, Zero)
    /\ IsZero(args.profit_margin)
    /\ ret = Return(Num(-100))

\* the caller follows the sign convention: strengths and opportunities weights
\* >= 0, weaknesses and threats weights <= 0
FollowsSignConvention(swot) ==
    /\ \A i \in 1..Len(swot.strengths) : Le(Zero, swot.strengths[i].weight)
    /\ \A i \in 1..Len(swot.opportunities) : Le(Zero, swot.opportunities[i].weight)
    /\ \A i \in 1..Len(swot.weaknesses) : Le(swot.weaknesses[i].weight, Zero)
    /\ \A i \in 1..Len(swot.threats) : Le(swot.threats[i].weight, Zero)

\* the sum of the absolute values of the weights
RECURSIVE TotalMagnitude(_)
TotalMagnitude(factors) ==
    IF factors = <<>> THEN Zero
    ELSE Add(FAbs(factors[1].weight), TotalMagnitude(Tail(factors)))

\* C16: when the caller follows the sign convention, calculate_net_positive_score
\* is the sum of the absolute values of all weights and so never negative;
\* generate_swot_insights then never returns the significant-challenges string
\* first, and returns the balanced string first only when every weight is 0.
C16_SignConvention ==
    FollowsSignConvention(self) =>
        /\ Returned("calculate_net_positive_score") =>
              /\ ret.value = TotalMagnitude(AllFactors(self))
              /\ Le(Zero, ret.value)
        /\ Returned("generate_swot_insights") =>
              /\ ret.value[1] # SignificantChallenges
              /\ ret.value[1] = Balanced =>
                    \A i \in 1..Len(AllFactors(self)) : IsZero(AllFactors(self)[i].weight)

\* the insights of an analysis following the convention, with weaknesses and
\* threats of negative weight, start with the positive outlook
C16_Witness ==
    /\ FollowsSignConvention(self)
    /\ Returned("generate_swot_insights")
    /\ self.weaknesses # <<>> /\ Lt(self.weaknesses[1].weight, Zero)
    /\ self.threats # <<>> /\ Lt(self.threats[1].weight, Zero)
    /\ self.strengths # <<>> /\ IsZero(self.strengths[1].weight)
    /\ ret.value[1] = PositiveOutlook

\* summaries[strengths] + summaries[opportunities] - summaries[weaknesses]
\* - summaries[threats]
NetOfSummaries(summaries) ==
    Sub(Sub(Add(summaries.strengths, summaries.opportunities), summaries.weaknesses),
        summaries.threats)

\* C17: for any signs, the net score is summaries[strengths] +
\* summaries[opportunities] - summaries[weaknesses] - summaries[threats]; so when
\* generate_swot_insights returns both the opportunities-outweigh and the
\* strengths-outweigh string its first entry is the positive-outlook string, and
\* when its first entry is the significant-challenges string one of the other
\* two is the threats-outweigh or the weaknesses-outweigh string.
C17_InsightsAreLinked ==
    /\ Returned("calculate_net_positive_score") =>
          ret.value = NetOfSummaries(category_weight_summaries(self))
    /\ Returned("category_weight_summaries") =>
          NetOfSummaries(ret.value) = calculate_net_positive_score(self)
    /\ Returned("generate_swot_insights") =>
          /\ (ret.value[2] = OpportunitiesOutweigh /\ ret.value[3] = StrengthsOutweigh) =>
                 ret.value[1] = PositiveOutlook
          /\ ret.value[1] = SignificantChallenges =>
                 (ret.value[2] = ThreatsOutweigh \/ ret.value[3] = WeaknessesOutweigh)

\* insights that start with the significant challenges although the
\* opportunities outweigh the threats
C17_Witness ==
    /\ Returned("generate_swot_insights")
    /\ ret.value = <<SignificantChallenges, OpportunitiesOutweigh, WeaknessesOutweigh>>

====
